---- MODULE Spec2Model ----
(***************************************************************************)
(* Chatterbox (src/app.py): a Flask application over two tables, User and  *)
(* Message, with a cookie session per client.  Strings are sequences of    *)
(* one-character strings so that str.strip() is computed, not assumed.     *)
(* A request that writes to the database is two steps, the handler's code  *)
(* up to db.session.commit() and the commit itself, so that requests of    *)
(* several clients interleave as they do under a threaded server.          *)
(***************************************************************************)
EXTENDS Integers, Sequences, FiniteSets, TLC

VARIABLES
  users,      \* the User table: rows in insertion order, id = position
  messages,   \* the Message table: rows in commit order
  session,    \* session[c]: the ids under the key "user_id" of c's cookie ({} or {id})
  pc,         \* pc[c]: "idle", or the commit c's request is waiting at
  pending,    \* pending[c]: the object c's request added to db.session
  clock,      \* datetime.utcnow(), in ticks
  req,        \* the last request answered
  resp,       \* its response
  regLog,     \* regLog[i]: the username and password submitted by the register
              \* request that created users[i]
  postLog     \* postLog[i]: the cookie of the post request that created
              \* messages[i], and the number of messages committed when it arrived

vars == <<users, messages, session, pc, pending, clock, req, resp, regLog, postLog>>

\* ---------------------------------------------------------------- bounds
MaxUsers == 2
MaxMsgs == 3

Clients == {"c1", "c2"}

\* ---------------------------------------------------------------- strings
SP == " "

RECURSIVE lstrip(_)
lstrip(s) == IF s # <<>> /\ Head(s) = SP THEN lstrip(Tail(s)) ELSE s

RECURSIVE rstrip(_)
rstrip(s) ==
  IF s # <<>> /\ s[Len(s)] = SP THEN rstrip(SubSeq(s, 1, Len(s) - 1)) ELSE s

strip(s) == rstrip(lstrip(s))

\* ---------------------------------------------------------------- werkzeug.security
Salt == "salt"

generate_password_hash(password) ==
  [method |-> "scrypt", salt |-> Salt, digest |-> <<Salt, password>>]

check_password_hash(pwhash, password) ==
  pwhash.digest = <<pwhash.salt, password>>

\* ---------------------------------------------------------------- queries
\* User.query.filter_by(username=u): the matching rows, in table order.
filter_by_username(u) == SelectSeq(users, LAMBDA r : r.username = u)

\* User.query.get(id): the rows with that primary key (<<>> is None).
query_get(id) == SelectSeq(users, LAMBDA r : r.id = id)

\* The rows a session cookie resolves to.
resolve(cookie) ==
  IF cookie # {} THEN query_get(CHOOSE id \in cookie : TRUE) ELSE <<>>

get_current_user(c) == resolve(session[c])

\* The orders of the rows at the positions S that descend in created_at.
RECURSIVE descending(_, _)
descending(rows, S) ==
  IF S = {} THEN { <<>> }
  ELSE UNION { { <<rows[i]>> \o rest : rest \in descending(rows, S \ {i}) } :
               i \in { k \in S : \A l \in S :
                          rows[k].created_at >= rows[l].created_at } }

\* Variant: the feed ordered by created_at descending.
order_by_created_at_desc(rows) == descending(rows, 1..Len(rows))

\* The orders of the rows at the positions S that ascend in created_at: the
\* first is any row with the least created_at, then the rest in order.
RECURSIVE ascending(_, _)
ascending(rows, S) ==
  IF S = {} THEN { <<>> }
  ELSE UNION { { <<rows[i]>> \o rest : rest \in ascending(rows, S \ {i}) } :
               i \in { k \in S : \A l \in S :
                          rows[k].created_at <= rows[l].created_at } }

\* Message.query.order_by(Message.created_at.asc()).all(): every order of the
\* rows that is ascending in created_at (the order of equal timestamps is the
\* store's choice).
order_by_created_at(rows) == ascending(rows, 1..Len(rows))

\* Variant: the username column without unique=True.
NoUniqueConstraint(u) == FALSE

\* The unique=True constraint on User.username, checked by the store at INSERT.
UniqueViolation(u) == filter_by_username(u) # <<>>

\* ---------------------------------------------------------------- responses
redirect(endpoint) == [kind |-> "redirect", to |-> endpoint]

\* render_page: the navbar shows the current user's name.
render_page(c, title, content) ==
  [kind |-> "page", title |-> title, content |-> content,
   current_user |-> get_current_user(c)]

NotFound == [kind |-> "error", code |-> "404"]
IntegrityError == [kind |-> "error", code |-> "500"]

\* ---------------------------------------------------------------- state
Init ==
  /\ users = <<>>
  /\ messages = <<>>
  /\ session = [c \in Clients |-> {}]
  /\ pc = [c \in Clients |-> "idle"]
  /\ pending = [c \in Clients |-> <<>>]
  /\ clock = 0
  /\ req = [kind |-> "none"]
  /\ resp = [kind |-> "none"]
  /\ regLog = <<>>
  /\ postLog = <<>>

Answer(request, response) ==
  /\ req' = request
  /\ resp' = response

\* ---------------------------------------------------------------- GET /
Index(c) ==
  /\ pc[c] = "idle"
  /\ Answer([kind |-> "index", client |-> c],
            IF get_current_user(c) # <<>>
              THEN redirect("chat")
              ELSE render_page(c, "Home", "welcome"))
  /\ UNCHANGED <<users, messages, session, pc, pending, clock, regLog, postLog>>

\* ---------------------------------------------------------------- /register
RegisterGet(c) ==
  /\ pc[c] = "idle"
  /\ Answer([kind |-> "register_get", client |-> c],
            render_page(c, "Register", "form"))
  /\ UNCHANGED <<users, messages, session, pc, pending, clock, regLog, postLog>>

RegisterRequest(c, username, password, confirm, about) ==
  [kind |-> "register", client |-> c, username |-> username,
   password |-> password, confirm |-> confirm, about |-> about]

\* Variant: register without the existence check.
username_exists_never(name) == FALSE

\* User.query.filter_by(username=username).first() is truthy.
username_exists(name) == filter_by_username(name) # <<>>

\* POST /register up to db.session.add(user).
RegisterPost(c, username, password, confirm, about) ==
  LET name == strip(username)
      about_me == strip(about)
      request == RegisterRequest(c, username, password, confirm, about)
  IN
  /\ pc[c] = "idle"
  /\ IF password # confirm
       THEN /\ Answer(request,
                      render_page(c, "Register", "Passwords do not match!"))
            /\ UNCHANGED <<pc, pending>>
     ELSE IF username_exists(name)
       THEN /\ Answer(request,
                      render_page(c, "Register", "Username already exists!"))
            /\ UNCHANGED <<pc, pending>>
     ELSE /\ pc' = [pc EXCEPT ![c] = "register_commit"]
          /\ pending' = [pending EXCEPT ![c] =
               [request |-> request,
                user |-> [username |-> name,
                          password_hash |-> generate_password_hash(password),
                          about |-> about_me]]]
          /\ UNCHANGED <<req, resp>>
  /\ UNCHANGED <<users, messages, session, clock, regLog, postLog>>

\* db.session.commit() of POST /register, then the session and the redirect.
RegisterCommit(c) ==
  LET p == pending[c]
      id == Len(users) + 1
  IN
  /\ pc[c] = "register_commit"
  /\ pc' = [pc EXCEPT ![c] = "idle"]
  /\ pending' = [pending EXCEPT ![c] = <<>>]
  /\ IF UniqueViolation(p.user.username)
       THEN /\ Answer(p.request, IntegrityError)
            /\ UNCHANGED <<users, session, regLog>>
       ELSE /\ Len(users) < MaxUsers
            /\ users' = Append(users,
                 [id |-> id, username |-> p.user.username,
                  password_hash |-> p.user.password_hash,
                  about |-> p.user.about])
            /\ regLog' = Append(regLog, [username |-> p.request.username,
                                          password |-> p.request.password])
            /\ session' = [session EXCEPT ![c] = {id}]
            /\ Answer(p.request, redirect("chat"))
  /\ UNCHANGED <<messages, clock, postLog>>

\* ---------------------------------------------------------------- /login
LoginGet(c) ==
  /\ pc[c] = "idle"
  /\ Answer([kind |-> "login_get", client |-> c],
            render_page(c, "Login", "form"))
  /\ UNCHANGED <<users, messages, session, pc, pending, clock, regLog, postLog>>

LoginRequest(c, username, password) ==
  [kind |-> "login", client |-> c, username |-> username, password |-> password]

\* Variant: a login that tells an unknown username from a wrong password.
LoginPost_names_cause(c, username, password) ==
  LET found == filter_by_username(username)
      request == LoginRequest(c, username, password)
  IN
  /\ pc[c] = "idle"
  /\ IF found = <<>>
       THEN /\ Answer(request, render_page(c, "Login", "Unknown username!"))
            /\ UNCHANGED session
     ELSE IF ~check_password_hash(found[1].password_hash, password)
       THEN /\ Answer(request, render_page(c, "Login", "Wrong password!"))
            /\ UNCHANGED session
     ELSE /\ session' = [session EXCEPT ![c] = {found[1].id}]
          /\ Answer(request, redirect("chat"))
  /\ UNCHANGED <<users, messages, pc, pending, clock, regLog, postLog>>

LoginPost(c, username, password) ==
  LET found == filter_by_username(username)
      request == LoginRequest(c, username, password)
  IN
  /\ pc[c] = "idle"
  /\ IF found = <<>> \/ ~check_password_hash(found[1].password_hash, password)
       THEN /\ Answer(request, render_page(c, "Login", "Invalid credentials!"))
            /\ UNCHANGED session
       ELSE /\ session' = [session EXCEPT ![c] = {found[1].id}]
            /\ Answer(request, redirect("chat"))
  /\ UNCHANGED <<users, messages, pc, pending, clock, regLog, postLog>>

\* ---------------------------------------------------------------- /logout
\* Variant: a logout that redirects without clearing the session.
Logout_keeps_session(c) ==
  /\ pc[c] = "idle"
  /\ Answer([kind |-> "logout", client |-> c], redirect("index"))
  /\ UNCHANGED <<users, messages, session, pc, pending, clock, regLog, postLog>>

Logout(c) ==
  /\ pc[c] = "idle"
  /\ session' = [session EXCEPT ![c] = {}]
  /\ Answer([kind |-> "logout", client |-> c], redirect("index"))
  /\ UNCHANGED <<users, messages, pc, pending, clock, regLog, postLog>>

\* ---------------------------------------------------------------- /chat
ChatPostRequest(c, subject, content) ==
  [kind |-> "chat_post", client |-> c, cookie |-> session[c],
   subject |-> subject, content |-> content]

\* Variant: "if subject".
accepted_subject_only(subj, cont) == subj # <<>>

\* "if subject and content", both already stripped.
accepted(subj, cont) == subj # <<>> /\ cont # <<>>

\* Variant: the message attributed to the first user of the table.
author_first_user(c) == users[1].id

\* get_current_user().id, the author of the message being posted.
author(c) == get_current_user(c)[1].id

\* POST /chat up to db.session.commit(): login_required, the form, and the
\* INSERT, whose created_at default reads the clock.
ChatPost(c, subject, content) ==
  LET user == get_current_user(c)
      subj == strip(subject)
      cont == strip(content)
      request == ChatPostRequest(c, subject, content)
  IN
  /\ pc[c] = "idle"
  /\ IF user = <<>>
       THEN /\ Answer(request, redirect("login"))
            /\ UNCHANGED <<pc, pending>>
     ELSE IF accepted(subj, cont)
       THEN /\ Len(messages) + Cardinality({d \in Clients : pc[d] = "chat_commit"})
                 < MaxMsgs
            /\ pc' = [pc EXCEPT ![c] = "chat_commit"]
            /\ pending' = [pending EXCEPT ![c] =
                 [request |-> request,
                  seen |-> Len(messages),
                  msg |-> [user_id |-> author(c), subject |-> subj,
                           content |-> cont, created_at |-> clock]]]
            /\ UNCHANGED <<req, resp>>
     ELSE /\ Answer(request, redirect("chat"))
          /\ UNCHANGED <<pc, pending>>
  /\ UNCHANGED <<users, messages, session, clock, regLog, postLog>>

\* db.session.commit() of POST /chat, then the redirect.  The commit takes time:
\* a request that arrives after it reads a later clock.
ChatCommit(c) ==
  LET p == pending[c]
      id == Len(messages) + 1
  IN
  /\ pc[c] = "chat_commit"
  /\ pc' = [pc EXCEPT ![c] = "idle"]
  /\ pending' = [pending EXCEPT ![c] = <<>>]
  /\ messages' = Append(messages,
       [id |-> id, user_id |-> p.msg.user_id, subject |-> p.msg.subject,
        content |-> p.msg.content, created_at |-> p.msg.created_at])
  /\ postLog' = Append(postLog, [cookie |-> p.request.cookie, seen |-> p.seen])
  /\ clock' = clock + 1
  /\ Answer(p.request, redirect("chat"))
  /\ UNCHANGED <<users, session, regLog>>

\* One message of the feed as the page shows it.
bubble(m, me) ==
  IF m.user_id = me.id
    THEN [class |-> "chat-me", subject |-> m.subject, content |-> m.content]
    ELSE [class |-> "chat-other", username |-> query_get(m.user_id)[1].username,
          subject |-> m.subject, content |-> m.content]

ChatGetRequest(c) == [kind |-> "chat_get", client |-> c, cookie |-> session[c]]

ChatGet(c) ==
  LET user == get_current_user(c)
  IN
  /\ pc[c] = "idle"
  /\ IF user = <<>>
       THEN Answer(ChatGetRequest(c), redirect("login"))
       ELSE \E feed \in order_by_created_at(messages) :
              Answer(ChatGetRequest(c),
                     render_page(c, "Chat",
                       [i \in 1..Len(feed) |-> bubble(feed[i], user[1])]))
  /\ UNCHANGED <<users, messages, session, pc, pending, clock, regLog, postLog>>

\* ---------------------------------------------------------------- /profile/<username>
ProfileRequest(c, username) ==
  [kind |-> "profile", client |-> c, cookie |-> session[c], username |-> username]

\* Variant: the profile route without @login_required.
Profile_without_login_required(c, username) ==
  LET found == filter_by_username(username)
  IN
  /\ pc[c] = "idle"
  /\ Answer(ProfileRequest(c, username),
       IF found = <<>> THEN NotFound
       ELSE render_page(c, "Profile",
              [username |-> found[1].username,
               about |-> IF found[1].about # <<>> THEN found[1].about
                         ELSE <<"No bio yet.">>]))
  /\ UNCHANGED <<users, messages, session, pc, pending, clock, regLog, postLog>>

Profile(c, username) ==
  LET found == filter_by_username(username)
  IN
  /\ pc[c] = "idle"
  /\ Answer(ProfileRequest(c, username),
       IF get_current_user(c) = <<>> THEN redirect("login")
       ELSE IF found = <<>> THEN NotFound
       ELSE render_page(c, "Profile",
              [username |-> found[1].username,
               about |-> IF found[1].about # <<>> THEN found[1].about
                         ELSE <<"No bio yet.">>]))
  /\ UNCHANGED <<users, messages, session, pc, pending, clock, regLog, postLog>>

\* ---------------------------------------------------------------- the accounts
\* Form values the clients submit to the account routes.
Usernames == { <<>>, <<"a">>, <<SP, "a">> }
Passwords == { <<>>, <<"p">>, <<"q">> }
Abouts == { <<"h", SP>> }

Next ==
  \E c \in Clients :
    \/ Index(c)
    \/ RegisterGet(c)
    \/ \E u \in Usernames, p \in Passwords, cf \in Passwords, a \in Abouts :
         RegisterPost(c, u, p, cf, a)
    \/ RegisterCommit(c)
    \/ LoginGet(c)
    \/ \E u \in Usernames, p \in Passwords : LoginPost(c, u, p)
    \/ Logout(c)

Spec == Init /\ [][Next]_vars

\* ---------------------------------------------------------------- the feed
\* Form values the clients submit while the feed is in use.
FeedUsernames == { <<"a">>, <<"b">> }
FeedPasswords == { <<"p">> }
Subjects == { <<>>, <<"s", SP>> }
Contents == { <<>>, <<SP, SP>>, <<SP, "m">> }

FeedNext ==
  \E c \in Clients :
    \/ \E u \in FeedUsernames, p \in FeedPasswords, a \in Abouts :
         RegisterPost(c, u, p, p, a)
    \/ RegisterCommit(c)
    \/ \E u \in FeedUsernames, p \in FeedPasswords : LoginPost(c, u, p)
    \/ Logout(c)
    \/ \E s \in Subjects, t \in Contents : ChatPost(c, s, t)
    \/ ChatCommit(c)
    \/ ChatGet(c)
    \/ \E u \in FeedUsernames : Profile(c, u)

FeedSpec == Init /\ [][FeedNext]_vars

\* ---------------------------------------------------------------- properties
\* The request that arrives in a step: the one answered at once (pc unchanged),
\* or the one whose object is added to db.session (its client leaves "idle").
\* A commit step answers a request that arrived earlier.
Arriving ==
  IF pc' = pc THEN req'
  ELSE IF \E c \in Clients : pc[c] = "idle" /\ pc'[c] # "idle"
    THEN pending'[CHOOSE c \in Clients : pc[c] = "idle" /\ pc'[c] # "idle"].request
  ELSE [kind |-> "none"]

\* C1: after a register request with a non-empty username and a non-empty
\* password (equal to confirm) has succeeded, a login request that submits the
\* same username string and the same password is answered with the redirect to
\* the chat and binds the session to the User with the submitted username.
C1_RegisterThenLogin ==
  (/\ req.kind = "login"
   /\ req.username # <<>>
   /\ req.password # <<>>
   /\ \E i \in 1..Len(regLog) :
        /\ regLog[i].username = req.username
        /\ regLog[i].password = req.password)
  => /\ resp = redirect("chat")
     /\ \E u \in {users[i] : i \in 1..Len(users)} :
          /\ session[req.client] = {u.id}
          /\ u.username = req.username

\* C2: no two User rows share a username, also when two register requests for
\* the same username both pass the existence check before either commits.
C2_UniqueUsernames ==
  \A i, j \in 1..Len(users) : users[i].username = users[j].username => i = j

\* Two registers raced: the second commit was refused by the store.
C2_Witness ==
  /\ req.kind = "register"
  /\ resp = IntegrityError
  /\ filter_by_username(strip(req.username)) # <<>>

\* C3: a register request whose username or password is empty, or whose
\* password differs from confirm, is answered with the register page and an
\* error, and creates no User row.
C3_InvalidRegisterRejected ==
  (/\ req.kind = "register"
   /\ \/ req.username = <<>>
      \/ req.password = <<>>
      \/ req.password # req.confirm)
  => /\ resp.kind = "page"
     /\ resp.title = "Register"
     /\ \A i \in 1..Len(regLog) :
          ~(regLog[i].username = req.username /\ regLog[i].password = req.password)

\* C4 as stated: a register request whose username is in the User table is
\* answered with the conflict error and leaves the User table as it was.
\* (Stated for non-empty usernames and passwords, of the request and of the
\* row, which is where the statement fails on its own account.)
C4_ExistingUsernameConflict ==
  [][LET r == Arriving
         found == filter_by_username(r.username)
     IN
     (/\ r.kind = "register"
      /\ r.username # <<>>
      /\ r.password # <<>>
      /\ found # <<>>
      /\ ~check_password_hash(found[1].password_hash, <<>>))
     => /\ pc' = pc
        /\ resp' = render_page(r.client, "Register", "Username already exists!")
        /\ users' = users]_vars

\* C4 amended: a register request whose username is in the User table leaves
\* the User table as it was and is answered with the register page and an
\* error: the conflict error when password = confirm, the mismatch error
\* otherwise.
C4_ExistingUsernameRejected ==
  [][LET r == Arriving IN
     (r.kind = "register" /\ filter_by_username(r.username) # <<>>)
     => /\ pc' = pc
        /\ resp' = render_page(r.client, "Register",
                     IF r.password = r.confirm
                       THEN "Username already exists!"
                       ELSE "Passwords do not match!")
        /\ users' = users]_vars

C4_Witness ==
  /\ req.kind = "register"
  /\ req.password = req.confirm
  /\ filter_by_username(req.username) # <<>>
  /\ resp.kind = "page"
  /\ resp.content = "Username already exists!"

\* C5: a login request with an unknown username and one with a known username
\* and a wrong password get the same response, the login page with "Invalid
\* credentials!" under the navbar of the session as it was, and leave the
\* session and the tables as they were.
C5_LoginFailuresAlike ==
  [][LET r == Arriving
         found == filter_by_username(r.username)
     IN
     (/\ r.kind = "login"
      /\ \/ found = <<>>
         \/ ~check_password_hash(found[1].password_hash, r.password))
     => /\ resp' = [kind |-> "page", title |-> "Login",
                    content |-> "Invalid credentials!",
                    current_user |-> resolve(session[r.client])]
        /\ session' = session
        /\ users' = users
        /\ messages' = messages]_vars

\* A known username met a wrong, non-empty password.
C5_Witness ==
  /\ req.kind = "login"
  /\ req.password # <<>>
  /\ filter_by_username(req.username) # <<>>
  /\ ~check_password_hash(filter_by_username(req.username)[1].password_hash,
                          req.password)
  /\ resp.kind = "page"
  /\ resp.content = "Invalid credentials!"

\* C6: a GET or POST /chat or a GET /profile/<username> whose session resolves
\* to no User is answered with the redirect to login, whether or not the
\* profile's username exists, and changes neither table.
C6_LoginRequired ==
  [][LET r == Arriving IN
     (/\ r.kind \in {"chat_get", "chat_post", "profile"}
      /\ resolve(r.cookie) = <<>>)
     => /\ pc' = pc
        /\ resp' = redirect("login")
        /\ users' = users
        /\ messages' = messages]_vars

\* An anonymous client asked for the profile of an unknown username while the
\* feed held a message.
C6_Witness ==
  /\ req.kind = "profile"
  /\ req.cookie = {}
  /\ filter_by_username(req.username) = <<>>
  /\ resp = redirect("login")
  /\ messages # <<>>

C8_EmptyContentNotPosted ==
  [][LET r == Arriving IN
     (/\ r.kind = "chat_post"
      /\ resolve(r.cookie) # <<>>
      /\ strip(r.content) = <<>>)
     => /\ pc' = pc
        /\ messages' = messages
        /\ resp' = redirect("chat")]_vars

\* A logged-in user posted a subject with a content of spaces only.
C8_Witness ==
  /\ req.kind = "chat_post"
  /\ resolve(req.cookie) # <<>>
  /\ strip(req.subject) # <<>>
  /\ req.content # <<>>
  /\ strip(req.content) = <<>>
  /\ resp = redirect("chat")

\* Every feed the query can return holds each stored message exactly once, and
\* a message committed before another was posted comes before it.
C9_FeedOrder ==
  \A feed \in order_by_created_at(messages) :
    /\ Len(feed) = Len(messages)
    /\ \A i \in 1..Len(messages) :
         Cardinality({k \in 1..Len(feed) : feed[k] = messages[i]}) = 1
    /\ LET pos(i) == CHOOSE k \in 1..Len(feed) : feed[k] = messages[i]
       IN \A j \in 1..Len(messages) :
            \A i \in 1..postLog[j].seen : pos(i) < pos(j)

\* No step removes or alters a stored message.
C9_AppendOnly ==
  /\ Len(messages') >= Len(messages)
  /\ \A i \in 1..Len(messages) : messages'[i] = messages[i]

\* C9: the feed of GET /chat holds every stored message exactly once, a
\* message committed before another was posted comes before it, and no request
\* removes or alters a stored message.
C9_Feed == []C9_FeedOrder /\ [][C9_AppendOnly]_vars

\* A feed was shown that holds a message posted after another was committed.
C9_Witness ==
  /\ req.kind = "chat_get"
  /\ resp.kind = "page"
  /\ Len(resp.content) = 2
  /\ Len(messages) = 2
  /\ postLog[2].seen = 1

\* C10: every stored message's user_id is the id of a User row and is the id
\* the session of the request that posted it held.
C10_AuthorIsSessionUser ==
  \A i \in 1..Len(messages) :
    /\ query_get(messages[i].user_id) # <<>>
    /\ postLog[i].cookie = {messages[i].user_id}

\* Two users have posted, the second while the first's post was not yet
\* committed.
C10_Witness ==
  /\ Len(messages) = 2
  /\ messages[1].user_id # messages[2].user_id
  /\ postLog[2].seen = 0
  /\ req.kind = "chat_post"
  /\ resp = redirect("chat")
====
